---- MODULE Spec2Model ----
(***************************************************************************)
(* Model of packit/utils/obs_helper.py: the target resolver                *)
(* (target_to_path), the repository merge and project-meta builder         *)
(* (targets_to_project_meta), create_package and create_obs_project.       *)
(*                                                                         *)
(* A Python str is a sequence of atoms (each atom an indivisible piece of  *)
(* text such as "fedora", "-" or ","), so that str.split, str.join and     *)
(* f-string concatenation are computed rather than assumed.                *)
(* An Optional value is <<>> (None) or <<v>>.                              *)
(***************************************************************************)
EXTENDS Integers, Sequences, FiniteSets, Bags, TLC

\* ---------------------------------------------------------------- bounds
MaxDistroTokens == 2
MaxTargets == 3
MaxPackages == 2

\* ------------------------------------------------------- string helpers
Hyphen == "-"
Comma == ","
None == <<>>
Some(v) == <<v>>
S(a) == <<a>>

RECURSIVE SplitAcc(_, _, _, _)
SplitAcc(s, sep, i, cur) ==
    IF i > Len(s) THEN <<cur>>
    ELSE IF s[i] = sep THEN <<cur>> \o SplitAcc(s, sep, i + 1, <<>>)
    ELSE SplitAcc(s, sep, i + 1, Append(cur, s[i]))

\* str.split(sep): always at least one element, "" splits to [""]
split(s, sep) == SplitAcc(s, sep, 1, <<>>)

RECURSIVE join(_, _)
\* sep.join(parts)
join(parts, sep) ==
    IF Len(parts) = 0 THEN <<>>
    ELSE IF Len(parts) = 1 THEN parts[1]
    ELSE parts[1] \o <<sep>> \o join(Tail(parts), sep)

\* seq[-n:]
LastN(seq, n) ==
    IF Len(seq) <= n THEN seq ELSE SubSeq(seq, Len(seq) - n + 1, Len(seq))

\* seq[:-n]
DropLastN(seq, n) ==
    IF Len(seq) <= n THEN <<>> ELSE SubSeq(seq, 1, Len(seq) - n)

\* ----------------------------------------------------------- exceptions
NoExc == [type |-> "", msg |-> "", args |-> <<>>]
ValueError(msg, args) == [type |-> "ValueError", msg |-> msg, args |-> args]
UnpackError == ValueError("not enough values to unpack (expected 2, got 1)", <<>>)
NoPresetError(distro, version, arch_) ==
    ValueError("No preset available for", <<distro, version, arch_>>)
ConfigError == ValueError("Cannot handle multiple packages in package_config", <<>>)
TransportError == [type |-> "HTTPError", msg |-> "transport failure", args |-> <<>>]

Returned(v) == [raised |-> FALSE, value |-> v, exc |-> NoExc]
Raised(e) == [raised |-> TRUE, value |-> <<>>, exc |-> e]

\* ------------------------------------------------------- target resolver
XmlPathEntry(project_, repository) == [project |-> project_, repository |-> repository]

\* variant: the ARM and zSystem postfixes exchanged
Postfix_swapped(arch_) ==
    IF arch_ = S("s390x") THEN S("ARM")
    ELSE IF arch_ = S("aarch64") THEN S("zSystem")
    ELSE S("PowerPC")

Postfix(arch_) ==
    IF arch_ = S("s390x") THEN S("zSystem")
    ELSE IF arch_ = S("aarch64") THEN S("ARM")
    ELSE S("PowerPC")

\* lines 65-102; an epel or opensuse target that matches no inner test falls
\* through the remaining distro tests to the raise at 102
target_to_path_rows(distro, version, arch_) ==
    IF distro = S("fedora") THEN
        IF version = S("rawhide")
        THEN Returned(<<XmlPathEntry(S("Fedora:Rawhide"), S("standard"))>>)
        ELSE Returned(<<XmlPathEntry(S("Fedora:") \o version, S("standard")),
                        XmlPathEntry(S("Fedora:") \o version, S("update"))>>)
    ELSE IF distro = S("epel") /\ version = S("9") THEN
        Returned(<<XmlPathEntry(S("Fedora:EPEL:") \o version, S("stream"))>>)
    ELSE IF distro = S("epel") /\ version \in {S("8"), S("7")} THEN
        Returned(<<XmlPathEntry(S("Fedora:EPEL:") \o version, S("CentOS"))>>)
    ELSE IF distro = <<"opensuse", Hyphen, "leap">> THEN
        Returned(<<XmlPathEntry(S("openSUSE:Leap:") \o version, S("standard"))>>)
    ELSE IF distro = S("opensuse") /\ arch_ = S("x86_64") THEN
        Returned(<<XmlPathEntry(S("openSUSE:Factory"), S("snapshot"))>>)
    ELSE IF distro = S("opensuse") /\ arch_ \in {S("s390x"), S("aarch64"), S("ppc64le")} THEN
        Returned(<<XmlPathEntry(S("openSUSE:Factory:") \o Postfix(arch_), S("standard"))>>)
    ELSE Raised(NoPresetError(distro, version, arch_))

target_to_path(t) ==
    LET target_split == split(t, Hyphen)
        last2 == LastN(target_split, 2)
    IN  IF Len(last2) # 2 THEN Raised(UnpackError)
        ELSE target_to_path_rows(join(DropLastN(target_split, 2), Hyphen),
                                 last2[1], last2[2])

\* --------------------------------------------------------- merge (114-131)
Repository(name, arch_, path_) == [name |-> name, arch |-> arch_, path |-> path_]

\* last token of the target: target.split("-")[-1]
ArchOf(t) == LET ts == split(t, Hyphen) IN ts[Len(ts)]

\* variant: an architecture already in the group is not appended again
MergeScan_dedup(rs, path_, arch_) ==
    [ind \in 1..Len(rs) |->
        IF rs[ind].path = path_
        THEN Repository(rs[ind].name \o <<Hyphen>> \o arch_,
                        IF \E i \in 1..Len(rs[ind].arch) : rs[ind].arch[i] = arch_
                        THEN rs[ind].arch ELSE Append(rs[ind].arch, arch_),
                        path_)
        ELSE rs[ind]]

\* variant: the architecture is put in front of the group's name
MergeScan_prefix(rs, path_, arch_) ==
    [ind \in 1..Len(rs) |->
        IF rs[ind].path = path_
        THEN Repository(arch_ \o <<Hyphen>> \o rs[ind].name,
                        Append(rs[ind].arch, arch_), path_)
        ELSE rs[ind]]

\* the scan over enumerate(repos): every group with an equal path is replaced
MergeScan(rs, path_, arch_) ==
    [ind \in 1..Len(rs) |->
        IF rs[ind].path = path_
        THEN Repository(rs[ind].name \o <<Hyphen>> \o arch_,
                        Append(rs[ind].arch, arch_), path_)
        ELSE rs[ind]]

\* variant: every target opens a group of its own
MergeInto_always_append(rs, t, path_) ==
    Append(rs, Repository(t, <<ArchOf(t)>>, path_))

MergeInto(rs, t, path_) ==
    LET arch_ == ArchOf(t)
        added == \E ind \in 1..Len(rs) : rs[ind].path = path_
    IN  IF added THEN MergeScan(rs, path_, arch_)
        ELSE Append(rs, Repository(t, <<arch_>>, path_))

\* ------------------------------------------------ xml documents (133-179)
Element(tag, attrib, text, children) ==
    [tag |-> tag, attrib |-> attrib, text |-> text, children |-> children]

PathElem(path_entry) ==
    Element("path", <<<<"project", path_entry.project>>,
                      <<"repository", path_entry.repository>>>>, None, <<>>)

ArchElem(arch_) == Element("arch", <<>>, Some(arch_), <<>>)

\* variant: the arch children are written before the path children
RepoElem_arch_first(repo) ==
    Element("repository", <<<<"name", repo.name>>>>, None,
            [i \in 1..Len(repo.arch) |-> ArchElem(repo.arch[i])]
            \o [i \in 1..Len(repo.path) |-> PathElem(repo.path[i])])

RepoElem(repo) ==
    Element("repository", <<<<"name", repo.name>>>>, None,
            [i \in 1..Len(repo.path) |-> PathElem(repo.path[i])]
            \o [i \in 1..Len(repo.arch) |-> ArchElem(repo.arch[i])])

\* description or ""
OrEmpty(opt) == IF opt = None THEN <<>> ELSE opt[1]

ProjectMeta(rs, owner_, project_name_, description_) ==
    Element("project", <<<<"name", project_name_>>>>, None,
            << Element("title", <<>>, Some(S("Packit project")), <<>>),
               Element("description", <<>>, Some(OrEmpty(description_)), <<>>),
               Element("person", <<<<"userid", owner_>>, <<"role", S("maintainer")>>>>,
                       None, <<>>) >>
            \o [i \in 1..Len(rs) |-> RepoElem(rs[i])])

PackageMeta(project_name_, package_name) ==
    Element("package", <<<<"name", package_name>>, <<"project", project_name_>>>>, None,
            << Element("title", <<>>,
                       Some(S("The ") \o package_name \o S(" package")), <<>>),
               Element("description", <<>>, None, <<>>) >>)

RECURSIVE AttribText(_)
AttribText(attrib) ==
    IF attrib = <<>> THEN <<>>
    ELSE <<" ", attrib[1][1], "=\"">> \o attrib[1][2] \o <<"\"">>
         \o AttribText(Tail(attrib))

RECURSIVE tostring(_)
RECURSIVE tostring_all(_)
tostring_all(elems) ==
    IF elems = <<>> THEN <<>> ELSE tostring(elems[1]) \o tostring_all(Tail(elems))

\* ET.tostring: an element without text and children is written "<tag ... />"
tostring(e) ==
    IF OrEmpty(e.text) = <<>> /\ e.children = <<>>
    THEN <<"<", e.tag>> \o AttribText(e.attrib) \o <<" />">>
    ELSE <<"<", e.tag>> \o AttribText(e.attrib) \o <<">">> \o OrEmpty(e.text)
         \o tostring_all(e.children) \o <<"</", e.tag, ">">>

\* -------------------------------------------------------- external client
API_URL == S("https://api.opensuse.org")
ConfigUser == S("bob")

\* core.makeurl(apiurl, path)
makeurl(apiurl, parts) == <<apiurl>> \o parts

Call(fn, url, data) == [fn |-> fn, url |-> url, data |-> data]

\* core.makeurl, core.metafile, metafile.sync for one document
UploadCalls(url, data) ==
    << Call("makeurl", url, <<>>), Call("metafile", url, data), Call("sync", url, data) >>

\* ----------------------------------------------------------------- inputs
T(tokens) == join([i \in 1..Len(tokens) |-> S(tokens[i])], Hyphen)

MergeTargets ==
    { T(<<"fedora", "38", "x86_64">>), T(<<"fedora", "38", "aarch64">>),
      T(<<"fedora", "rawhide", "x86_64">>),
      T(<<"centos", "stream", "x86_64">>), T(<<"fedora">>) }

TargetLists == UNION { [1..n -> MergeTargets] : n \in 1..MaxTargets }

DistroWords == { "fedora", "epel", "opensuse", "leap", "foo" }
VersionWords == { "rawhide", "38", "9", "8", "7", "6" }
ArchWords == { "x86_64", "s390x", "aarch64", "ppc64le", "riscv64" }

\* strings of one token: the empty string and every single word
OneToken == { <<>> } \cup { S(w) : w \in DistroWords \cup VersionWords \cup ArchWords }

\* the distro part: up to MaxDistroTokens words
DistroLists == UNION { [1..n -> DistroWords] : n \in 0..MaxDistroTokens }

PackageName(i) == <<"pkg", ToString(i)>>
PackageConfigs == { [i \in 1..n |-> PackageName(i)] : n \in 0..MaxPackages }

\* packit.config.aliases.DEPRECATED_TARGET_MAP: obsolete target -> replacement
DeprecatedTables ==
    { <<>>,
      (T(<<"centos", "stream", "x86_64">>) :> T(<<"centos", "stream", "8", "x86_64">>))
      @@ (T(<<"fedora", "38", "aarch64">>) :> T(<<"fedora", "39", "aarch64">>)) }

\* ------------------------------------------------------------------ state
VARIABLES
    pc,                   \* position in create_obs_project / target_to_path call
    project, targets, owner_arg, package_config, description,   \* arguments
    DEPRECATED_TARGET_MAP,
    owner, project_name,  \* locals of create_obs_project
    targets_list, warnings,
    repos, ti, target, path,          \* locals of targets_to_project_meta
    project_metadata,
    calls, remote,        \* calls made to osc core (makeurl, metafile, sync; the
                          \* local configuration load conf.get_config() is part
                          \* of GetConfig and sends nothing), documents stored on OBS
    exc, result

vars == << pc, project, targets, owner_arg, package_config, description,
           DEPRECATED_TARGET_MAP, owner, project_name, targets_list, warnings,
           repos, ti, target, path, project_metadata, calls, remote, exc, result >>

args == << project, targets, owner_arg, package_config, description,
           DEPRECATED_TARGET_MAP >>

\* no call has been made yet
Init ==
    /\ pc = "idle"
    /\ project = <<>> /\ targets = <<>> /\ owner_arg = None
    /\ package_config = <<>> /\ description = None
    /\ DEPRECATED_TARGET_MAP = <<>>
    /\ owner = <<>> /\ project_name = <<>>
    /\ targets_list = <<>> /\ warnings = <<>>
    /\ repos = <<>> /\ ti = 0 /\ target = <<>> /\ path = <<>>
    /\ project_metadata = None
    /\ calls = <<>> /\ remote = <<>>
    /\ exc = NoExc /\ result = None

\* ---------------------------------------------- create_obs_project (181-223)
\* owner or conf.config[...]["user"]; project or f"home:{owner}:packit"
Truthy(opt) == opt # None /\ opt[1] # <<>>

\* the call with its arguments, and lines 188-190
GetConfig ==
    /\ pc = "idle"
    /\ project' \in { <<>>, S("myproject") }
    /\ targets' \in { join(l, Comma) : l \in TargetLists }
    /\ owner_arg' \in { None, Some(S("alice")) }
    /\ package_config' \in PackageConfigs
    /\ description' \in { None, Some(S("demo")) }
    /\ DEPRECATED_TARGET_MAP' \in DeprecatedTables
    /\ LET o == IF Truthy(owner_arg') THEN owner_arg'[1] ELSE ConfigUser
       IN  /\ owner' = o
           /\ project_name' = IF project' # <<>> THEN project'
                              ELSE S("home:") \o o \o S(":packit")
    /\ pc' = "targets"
    /\ UNCHANGED << targets_list, warnings, repos, ti, target, path,
                    project_metadata, calls, remote, exc, result >>

Warning(t) == [target |-> t, replacement |-> DEPRECATED_TARGET_MAP[t]]

RECURSIVE DeprecationWarnings(_)
DeprecationWarnings(ts) ==
    IF ts = <<>> THEN <<>>
    ELSE (IF ts[1] \in DOMAIN DEPRECATED_TARGET_MAP THEN <<Warning(ts[1])>> ELSE <<>>)
         \o DeprecationWarnings(Tail(ts))

\* variant: a deprecated target is replaced by its successor
SplitTargets_replace ==
    /\ pc = "targets"
    /\ targets_list' = [i \in 1..Len(split(targets, Comma)) |->
                          LET t == split(targets, Comma)[i]
                          IN  IF t \in DOMAIN DEPRECATED_TARGET_MAP
                              THEN DEPRECATED_TARGET_MAP[t] ELSE t]
    /\ warnings' = DeprecationWarnings(split(targets, Comma))
    /\ pc' = "merge"
    /\ UNCHANGED << args, owner, project_name, repos, ti, target, path,
                    project_metadata, calls, remote, exc, result >>

SplitTargets ==
    /\ pc = "targets"
    /\ targets_list' = split(targets, Comma)
    /\ warnings' = DeprecationWarnings(split(targets, Comma))
    /\ pc' = "merge"
    /\ UNCHANGED << args, owner, project_name, repos, ti, target, path,
                    project_metadata, calls, remote, exc, result >>

\* variant: a target without preset is skipped instead of raising
MergeTarget_skip_unresolved ==
    /\ pc = "merge"
    /\ ti < Len(targets_list)
    /\ LET t == targets_list[ti + 1]
           r == target_to_path(t)
       IN  /\ ti' = ti + 1
           /\ target' = t
           /\ IF r.raised
              THEN UNCHANGED << path, repos >>
              ELSE /\ path' = r.value
                   /\ repos' = MergeInto(repos, t, r.value)
           /\ UNCHANGED << exc, pc >>
    /\ UNCHANGED << args, owner, project_name, targets_list, warnings,
                    project_metadata, calls, remote, result >>

\* one iteration of the loop over targets (115-131)
MergeTarget ==
    /\ pc = "merge"
    /\ ti < Len(targets_list)
    /\ LET t == targets_list[ti + 1]
           r == target_to_path(t)
       IN  /\ ti' = ti + 1
           /\ target' = t
           /\ IF r.raised
              THEN /\ exc' = r.exc
                   /\ pc' = "raised"
                   /\ UNCHANGED << path, repos >>
              ELSE /\ path' = r.value
                   /\ repos' = MergeInto(repos, t, r.value)
                   /\ UNCHANGED << exc, pc >>
    /\ UNCHANGED << args, owner, project_name, targets_list, warnings,
                    project_metadata, calls, remote, result >>

\* the document construction (133-158)
BuildProjectMeta ==
    /\ pc = "merge"
    /\ ti = Len(targets_list)
    /\ project_metadata' = Some(ProjectMeta(repos, owner, project_name, description))
    /\ pc' = "project_upload"
    /\ UNCHANGED << args, owner, project_name, targets_list, warnings,
                    repos, ti, target, path, calls, remote, exc, result >>

\* 209-214; the sync may fail in the transport, the failure propagates
UploadProjectMeta ==
    /\ pc = "project_upload"
    /\ LET url == makeurl(API_URL, <<S("source"), project_name, S("_meta")>>)
           data == tostring(project_metadata[1])
       IN  \E ok \in BOOLEAN :
              /\ calls' = calls \o UploadCalls(url, data)
              /\ IF ok
                 THEN /\ remote' = Append(remote, [url |-> url, data |-> data])
                      /\ pc' = "packages"
                      /\ UNCHANGED exc
                 ELSE /\ exc' = TransportError
                      /\ pc' = "raised"
                      /\ UNCHANGED remote
    /\ UNCHANGED << args, owner, project_name, targets_list, warnings,
                    repos, ti, target, path, project_metadata, result >>

\* variant: only an empty package configuration is rejected
CheckPackages_nonempty ==
    /\ pc = "packages"
    /\ IF Len(package_config) = 0
       THEN exc' = ConfigError /\ pc' = "raised"
       ELSE pc' = "create_package" /\ UNCHANGED exc
    /\ UNCHANGED << args, owner, project_name, targets_list, warnings,
                    repos, ti, target, path, project_metadata, calls, remote, result >>

\* 216-219
CheckPackages ==
    /\ pc = "packages"
    /\ IF Len(package_config) # 1
       THEN exc' = ConfigError /\ pc' = "raised"
       ELSE pc' = "create_package" /\ UNCHANGED exc
    /\ UNCHANGED << args, owner, project_name, targets_list, warnings,
                    repos, ti, target, path, project_metadata, calls, remote, result >>

\* create_package (160-179) called at 221, then the return at 223
CreatePackage ==
    /\ pc = "create_package"
    /\ LET package_name == package_config[1]
           url == makeurl(API_URL, <<S("source"), project_name, package_name, S("_meta")>>)
           data == tostring(PackageMeta(project_name, package_name))
       IN  \E ok \in BOOLEAN :
              /\ calls' = calls \o UploadCalls(url, data)
              /\ IF ok
                 THEN /\ remote' = Append(remote, [url |-> url, data |-> data])
                      /\ result' = Some(<<project_name, package_name>>)
                      /\ pc' = "returned"
                      /\ UNCHANGED exc
                 ELSE /\ exc' = TransportError
                      /\ pc' = "raised"
                      /\ UNCHANGED << remote, result >>
    /\ UNCHANGED << args, owner, project_name, targets_list, warnings,
                    repos, ti, target, path, project_metadata >>

\* target_to_path called on its own with any target string
Resolve ==
    /\ pc = "idle"
    /\ \/ target' \in OneToken
       \/ \E ds \in DistroLists, v \in VersionWords, a \in ArchWords :
             target' = T(ds \o <<v, a>>)
    /\ LET r == target_to_path(target')
       IN  IF r.raised
           THEN exc' = r.exc /\ pc' = "resolve_raised" /\ UNCHANGED path
           ELSE path' = r.value /\ pc' = "resolve_returned" /\ UNCHANGED exc
    /\ UNCHANGED << args, owner, project_name, targets_list, warnings,
                    repos, ti, project_metadata, calls, remote, result >>

Next ==
    \/ GetConfig
    \/ SplitTargets
    \/ MergeTarget
    \/ BuildProjectMeta
    \/ UploadProjectMeta
    \/ CheckPackages
    \/ CreatePackage
    \/ Resolve

Spec == Init /\ [][Next]_vars

\* ------------------------------------------------------------- properties
InCreate == pc \notin {"idle", "resolve_returned", "resolve_raised"}
InResolve == pc \in {"resolve_returned", "resolve_raised"}

\* ---- the resolution table as the specification states it
RowDistro(t) == LET ts == split(t, Hyphen) IN join(SubSeq(ts, 1, Len(ts) - 2), Hyphen)
RowVersion(t) == LET ts == split(t, Hyphen) IN ts[Len(ts) - 1]
RowArch(t) == LET ts == split(t, Hyphen) IN ts[Len(ts)]

\* number of the first matching row of the table, 0 when none matches
Row(t) ==
    IF Len(split(t, Hyphen)) < 2 THEN 0
    ELSE LET d == RowDistro(t)
             v == RowVersion(t)
             a == RowArch(t)
         IN  IF d = S("fedora") /\ v = S("rawhide") THEN 1
             ELSE IF d = S("fedora") THEN 2
             ELSE IF d = S("epel") /\ v = S("9") THEN 3
             ELSE IF d = S("epel") /\ v \in {S("8"), S("7")} THEN 4
             ELSE IF d = <<"opensuse", "-", "leap">> THEN 5
             ELSE IF d = S("opensuse") /\ a = S("x86_64") THEN 6
             ELSE IF d = S("opensuse") /\ a = S("s390x") THEN 7
             ELSE IF d = S("opensuse") /\ a = S("aarch64") THEN 8
             ELSE IF d = S("opensuse") /\ a = S("ppc64le") THEN 9
             ELSE 0

P(proj, repo) == [project |-> proj, repository |-> repo]

RowPaths(t) ==
    LET r == Row(t)
        v == RowVersion(t)
    IN  CASE r = 1 -> << P(<<"Fedora:Rawhide">>, <<"standard">>) >>
          [] r = 2 -> << P(<<"Fedora:">> \o v, <<"standard">>),
                         P(<<"Fedora:">> \o v, <<"update">>) >>
          [] r = 3 -> << P(<<"Fedora:EPEL:", "9">>, <<"stream">>) >>
          [] r = 4 -> << P(<<"Fedora:EPEL:">> \o v, <<"CentOS">>) >>
          [] r = 5 -> << P(<<"openSUSE:Leap:">> \o v, <<"standard">>) >>
          [] r = 6 -> << P(<<"openSUSE:Factory">>, <<"snapshot">>) >>
          [] r = 7 -> << P(<<"openSUSE:Factory:", "zSystem">>, <<"standard">>) >>
          [] r = 8 -> << P(<<"openSUSE:Factory:", "ARM">>, <<"standard">>) >>
          [] r = 9 -> << P(<<"openSUSE:Factory:", "PowerPC">>, <<"standard">>) >>

\* the caller's comma-separated list, once the call has been made
Given == split(targets, Comma)
Resolvable(t) == Row(t) # 0

\* C1 (as stated): whenever the package configuration holds zero or two or
\* more names, the configuration error is raised before any metadata
\* document is built and before any call to the OBS client: at the moment
\* the error is raised nothing has been built, called or uploaded.
C1_ConfigErrorBeforeAnyUpload ==
    (pc = "raised" /\ exc = ConfigError)
        => (project_metadata = None /\ calls = <<>> /\ remote = <<>>)

C3_DistinctPaths ==
    \A i, j \in 1..Len(repos) : i # j => repos[i].path # repos[j].path

C3_Witness ==
    /\ pc = "merge" /\ ti = 3 /\ Len(repos) = 2
    /\ Len(repos[1].arch) = 2

\* ---- bags of architectures
BagOfSeq(seq) ==
    [x \in {seq[i] : i \in 1..Len(seq)} |-> Cardinality({i \in 1..Len(seq) : seq[i] = x})]

RECURSIVE Flatten(_)
Flatten(seqs) == IF seqs = <<>> THEN <<>> ELSE seqs[1] \o Flatten(Tail(seqs))

Merging == pc \in {"merge", "project_upload", "packages", "create_package", "returned"}

\* C4: for resolvable targets the merge yields at most as many groups as
\* targets processed, and the bag of all groups' architectures equals the
\* bag of the processed targets' last tokens (duplicates kept).
C4_GroupCountAndArchBag ==
    Merging =>
        LET given == Given
        IN  /\ Len(repos) <= ti
            /\ BagOfSeq(Flatten([k \in 1..Len(repos) |-> repos[k].arch]))
                  = BagOfSeq([i \in 1..ti |-> RowArch(given[i])])

C4_Witness ==
    /\ Merging /\ ti = 3 /\ Len(repos) = 1
    /\ repos[1].arch[1] = repos[1].arch[2]

\* ---- first-seen-wins, stated over the path lists ps and architectures
\* as of the processed targets
FirstSeen(ps) == { f \in 1..Len(ps) : \A j \in 1..(f - 1) : ps[j] # ps[f] }
Members(ps, f) == { i \in f..Len(ps) : ps[i] = ps[f] }

RECURSIVE LaterSuffix(_, _, _, _)
\* "-{arch}" of every member of f's group from position i on, in encounter order
LaterSuffix(ps, as, f, i) ==
    IF i > Len(ps) THEN <<>>
    ELSE (IF ps[i] = ps[f] THEN <<"-">> \o as[i] ELSE <<>>)
         \o LaterSuffix(ps, as, f, i + 1)

RECURSIVE MemberArchs(_, _, _, _)
MemberArchs(ps, as, f, i) ==
    IF i > Len(ps) THEN <<>>
    ELSE (IF ps[i] = ps[f] THEN <<as[i]>> ELSE <<>>)
         \o MemberArchs(ps, as, f, i + 1)

Fedora38Pair ==
    << <<"fedora", "-", "38", "-", "x86_64">>, <<"fedora", "-", "38", "-", "aarch64">> >>

\* C5: merge is first-seen-wins: groups are ordered by the first target of
\* their path list, named after it plus "-{arch}" for each later member in
\* encounter order, with the members' architectures in encounter order;
\* ["fedora-38-x86_64", "fedora-38-aarch64"] gives the single group
\* "fedora-38-x86_64-aarch64".
C5_FirstSeenWins ==
    Merging =>
        LET given == Given
            ps == [i \in 1..ti |-> RowPaths(given[i])]
            as == [i \in 1..ti |-> RowArch(given[i])]
            first == FirstSeen(ps)
        IN  /\ Len(repos) = Cardinality(first)
            /\ \A f \in first :
                  LET k == Cardinality({ g \in first : g <= f })
                  IN  /\ repos[k].name = given[f] \o LaterSuffix(ps, as, f, f + 1)
                      /\ repos[k].arch = MemberArchs(ps, as, f, f)
                      /\ repos[k].path = ps[f]
            /\ (given = Fedora38Pair /\ ti = 2) =>
                  repos = << [name |-> <<"fedora", "-", "38", "-", "x86_64", "-", "aarch64">>,
                              arch |-> << <<"x86_64">>, <<"aarch64">> >>,
                              path |-> << P(<<"Fedora:", "38">>, <<"standard">>),
                                          P(<<"Fedora:", "38">>, <<"update">>) >>] >>

C5_Witness == Merging /\ Given = Fedora38Pair /\ ti = 2 /\ Len(repos) = 1

\* C6 (as stated): target_to_path fails with the unsupported-target error
\* carrying (distro, version, arch) for every target string that no table
\* row matches, strings of fewer than two tokens included, and never
\* returns a path list for them.
C6_NoRowFailsWithTriple ==
    (InResolve /\ Row(target) = 0)
        => /\ pc = "resolve_raised"
           /\ exc.msg = "No preset available for"
           /\ Len(exc.args) = 3

\* C7: target_to_path parses (distro, version, arch) from the hyphen
\* tokens and returns exactly the path list of the first matching table
\* row; it returns whenever a row matches.
C7_ReturnsTableRow ==
    /\ pc = "resolve_returned" => (Row(target) # 0 /\ path = RowPaths(target))
    /\ (InResolve /\ Row(target) # 0) => pc = "resolve_returned"

C7_Witness ==
    /\ pc = "resolve_returned" /\ Row(target) = 8
    /\ path = << P(<<"openSUSE:Factory:", "ARM">>, <<"standard">>) >>

\* C8: a deprecated target only adds a warning: the list resolved is the
\* caller's list unchanged, each resolved target is the original string,
\* and whether and where the run fails depends only on which targets the
\* table resolves, never on the deprecated-target table.
C8_DeprecatedOnlyWarns ==
    (InCreate /\ pc # "targets") =>
        LET given == Given
            ok == [i \in 1..Len(given) |-> Resolvable(given[i])]
        IN  /\ targets_list = given
            /\ Len(warnings) = Cardinality({ i \in 1..Len(given) :
                                   given[i] \in DOMAIN DEPRECATED_TARGET_MAP })
            /\ \A i \in 1..Len(warnings) :
                  warnings[i].target \in DOMAIN DEPRECATED_TARGET_MAP
            /\ ti > 0 => target = given[ti]
            /\ pc = "merge" => (exc = NoExc /\ \A i \in 1..ti : ok[i])
            /\ pc \in {"raised", "returned"} =>
                  ((calls = <<>>) <=> \E i \in 1..Len(given) : ~ok[i])
            /\ (pc = "raised" /\ calls = <<>>) =>
                  (~ok[ti] /\ \A i \in 1..(ti - 1) : ok[i])

C8_Witness ==
    /\ pc = "returned" /\ Len(warnings) >= 1
    /\ warnings[1].target \in { Given[i] : i \in 1..Len(Given) }

\* ---- reading a project document back
AttrOf(e, key) == e.attrib[CHOOSE i \in 1..Len(e.attrib) : e.attrib[i][1] = key][2]
IsPath(e) == e.tag = "path"
IsArch(e) == e.tag = "arch"
ReadPath(e) == [project |-> AttrOf(e, "project"), repository |-> AttrOf(e, "repository")]
ReadRepository(e) ==
    LET ps == SelectSeq(e.children, IsPath)
        as == SelectSeq(e.children, IsArch)
    IN  [name |-> AttrOf(e, "name"),
         arch |-> [i \in 1..Len(as) |-> as[i].text[1]],
         path |-> [i \in 1..Len(ps) |-> ReadPath(ps[i])]]
IsRepository(e) == e.tag = "repository"
ReadRepositories(root) ==
    LET rs == SelectSeq(root.children, IsRepository)
    IN  [k \in 1..Len(rs) |-> ReadRepository(rs[k])]

\* C9: the project document has a root carrying the project name, then
\* title, description and the maintainer, then one repository child per
\* group in group order, each with the group's name, its paths in order
\* followed by its architectures in order (no arch before a path);
\* reading the document back gives the project name and the groups.
C9_DocumentStructure ==
    project_metadata # None =>
        LET root == project_metadata[1]
            kids == root.children
        IN  /\ root.tag = "project" /\ AttrOf(root, "name") = project_name
            /\ Len(kids) = 3 + Len(repos)
            /\ kids[1].tag = "title" /\ kids[2].tag = "description"
            /\ kids[3].tag = "person"
            /\ AttrOf(kids[3], "role") = <<"maintainer">>
            /\ AttrOf(kids[3], "userid") = owner
            /\ \A k \in 1..Len(repos) :
                  LET r == kids[3 + k]
                      np == Len(repos[k].path)
                  IN  /\ r.tag = "repository" /\ AttrOf(r, "name") = repos[k].name
                      /\ Len(r.children) = np + Len(repos[k].arch)
                      /\ \A i \in 1..Len(r.children) :
                            IF i <= np
                            THEN /\ r.children[i].tag = "path"
                                 /\ ReadPath(r.children[i]) = repos[k].path[i]
                            ELSE /\ r.children[i].tag = "arch"
                                 /\ r.children[i].text = <<repos[k].arch[i - np]>>
            /\ ReadRepositories(root) = repos

C9_Witness ==
    /\ project_metadata # None /\ Len(repos) = 2
    /\ Len(repos[1].path) = 2 /\ Len(repos[1].arch) = 2
    /\ Len(project_metadata[1].children) = 5

\* ---- what the caller asked for
ExpectedOwner ==
    IF owner_arg # <<>> /\ owner_arg[1] # <<>> THEN owner_arg[1] ELSE <<"bob">>
ExpectedProject ==
    IF project # <<>> THEN project ELSE <<"home:">> \o ExpectedOwner \o <<":packit">>
ProjectUrl == << <<"https://api.opensuse.org">>, <<"source">>, ExpectedProject, <<"_meta">> >>
PackageUrl(pkg) ==
    << <<"https://api.opensuse.org">>, <<"source">>, ExpectedProject, pkg, <<"_meta">> >>
IsSync(c) == c.fn = "sync"

\* C10: a call about package metadata is made only after the project
\* metadata was stored and only with exactly one package name configured;
\* a run that returns did exactly one project upload followed by exactly
\* one package upload, both under the project name asked for (the given
\* one, else home:{owner}:packit), and returns (project_name, package_name).
C10_PackageAfterProject ==
    InCreate =>
        /\ \A i \in 1..Len(calls) :
              Len(calls[i].url) = 5 =>
                 /\ Len(package_config) = 1
                 /\ calls[i].url = PackageUrl(package_config[1])
                 /\ remote # <<>> /\ remote[1].url = ProjectUrl
                 /\ \E j \in 1..(i - 1) : calls[j].fn = "sync" /\ calls[j].url = ProjectUrl
        /\ pc = "returned" =>
              LET syncs == SelectSeq(calls, IsSync)
              IN  /\ Len(package_config) = 1
                  /\ [i \in 1..Len(syncs) |-> syncs[i].url]
                        = << ProjectUrl, PackageUrl(package_config[1]) >>
                  /\ [i \in 1..Len(remote) |-> remote[i].url]
                        = << ProjectUrl, PackageUrl(package_config[1]) >>
                  /\ result = << <<ExpectedProject, package_config[1]>> >>

C10_Witness ==
    /\ pc = "returned" /\ project = <<>> /\ owner_arg = <<>>
    /\ result = << << <<"home:", "bob", ":packit">>, <<"pkg", "1">> >> >>
====
